---- MODULE Spec2Model ----
(***************************************************************************)
(* A model of the PathManager class of next-path-helper                    *)
(* (src/src/utils/pathManager.ts): the registry of paths (addPath,         *)
(* updatePath, getPath, addNav, addPathsToNav, removeNav, getNavList,      *)
(* makeNavList) and the directory walk that fills it (buildPathList).      *)
(*                                                                         *)
(* Strings that the code takes apart (keys, labels, directory names,       *)
(* relative paths) are sequences of one-character strings.  Values whose   *)
(* JavaScript type the code inspects are records [t, f, s, n]: t is the    *)
(* result of typeof.  A PathInfo object lives in the heap and the registry *)
(* holds references to it, as this.paths[key] = pathInfo does.             *)
(*                                                                         *)
(* Keys are ordinary names: the names every JavaScript object inherits     *)
(* (constructor, toString, __proto__, ...) are not in the key universe of  *)
(* this model, so this.paths[key] is the lookup of an own property.        *)
(***************************************************************************)
EXTENDS Integers, Sequences, FiniteSets, TLC

VARIABLES
    paths,   \* this.paths: the own properties in property order, <<[key, ref]>>
    heap,    \* the PathInfo objects the registry refers to: ref -> PathInfo
    call,    \* the last public method called, with its arguments
    err,     \* the error the last call threw, "none" if it returned
    log,     \* what the last call wrote to the console, in order
    ret      \* what the last call returned

vars == <<paths, heap, call, err, log, ret>>

----------------------------------------------------------------------------
(* Bounds of the model *)

\* the longest argument list of addNav and key list of addPathsToNav
MaxArgs == 2

----------------------------------------------------------------------------
(* JavaScript values *)

Str(s) == [t |-> "string", f |-> "", s |-> s, n |-> 0]
Num(n) == [t |-> "number", f |-> "", s |-> <<>>, n |-> n]
Undefined == [t |-> "undefined", f |-> "", s |-> <<>>, n |-> 0]
\* the three kinds of function a PathInfo's path can be
HomeFn == [t |-> "function", f |-> "home", s |-> <<>>, n |-> 0]
BuiltFn(relativePath) == [t |-> "function", f |-> "built", s |-> relativePath, n |-> 0]
UserFn(i) == [t |-> "function", f |-> "user", s |-> <<>>, n |-> i]

TypeOf(v) == v.t

\* ToBoolean: what `if (v)` and `v && ...` test
Truthy(v) ==
    CASE v.t = "undefined" -> FALSE
      [] v.t = "string" -> v.s # <<>>
      [] v.t = "number" -> v.n # 0
      [] OTHER -> TRUE

\* the value of a navs property: an array of tags, or something else
Arr(items) == [arr |-> TRUE, items |-> items]
NotAnArray == [arr |-> FALSE, items |-> <<>>]

Includes(seq, x) == \E i \in 1..Len(seq) : seq[i] = x

\* Array.prototype.indexOf, 1-based; 0 stands for -1
IndexOf(seq, x) ==
    IF Includes(seq, x)
    THEN CHOOSE i \in 1..Len(seq) : seq[i] = x /\ \A j \in 1..(i - 1) : seq[j] # x
    ELSE 0

\* Array.prototype.splice(index, 1)
Splice1(seq, i) == SubSeq(seq, 1, i - 1) \o SubSeq(seq, i + 1, Len(seq))

----------------------------------------------------------------------------
(* Strings *)

Digits == {"0", "1", "2", "3", "4", "5", "6", "7", "8", "9"}

DigitVal(c) ==
    CASE c = "0" -> 0 [] c = "1" -> 1 [] c = "2" -> 2 [] c = "3" -> 3
      [] c = "4" -> 4 [] c = "5" -> 5 [] c = "6" -> 6 [] c = "7" -> 7
      [] c = "8" -> 8 [] c = "9" -> 9

RECURSIVE DecimalValue(_)
DecimalValue(s) ==
    IF s = <<>> THEN 0
    ELSE 10 * DecimalValue(SubSeq(s, 1, Len(s) - 1)) + DigitVal(s[Len(s)])

\* A property name that is an array index (a canonical numeric string below
\* 2^32 - 1): own properties with such names are enumerated first, ascending.
IsArrayIndex(key) ==
    /\ Len(key) \in 1..9
    /\ \A i \in 1..Len(key) : key[i] \in Digits
    /\ (Len(key) > 1 => key[1] # "0")

----------------------------------------------------------------------------
(* The registry: this.paths and the objects it refers to *)

\* private paths: Record<string, PathInfo> = {}
EmptyPaths == <<>>

HasKey(p, key) == \E i \in 1..Len(p) : p[i].key = key

\* this.paths[key]: the reference stored under key, 0 for undefined
PathsGet(p, key) ==
    IF HasKey(p, key) THEN p[CHOOSE i \in 1..Len(p) : p[i].key = key].ref ELSE 0

\* a new property going last in the property order, whatever its name
InsertAt_Last(p, key) == Len(p) + 1

\* where a new property goes in the property order of an object
InsertAt(p, key) ==
    IF IsArrayIndex(key)
    THEN 1 + Cardinality({i \in 1..Len(p) :
                 IsArrayIndex(p[i].key) /\ DecimalValue(p[i].key) < DecimalValue(key)})
    ELSE Len(p) + 1

\* this.paths[key] = ref
PathsSet(p, key, ref) ==
    IF HasKey(p, key)
    THEN [i \in 1..Len(p) |-> IF p[i].key = key THEN [key |-> key, ref |-> ref] ELSE p[i]]
    ELSE LET at == InsertAt(p, key)
         IN SubSeq(p, 1, at - 1) \o <<[key |-> key, ref |-> ref]>> \o SubSeq(p, at, Len(p))

Refs(p) == {p[i].ref : i \in 1..Len(p)}
KeysOf(p) == {p[i].key : i \in 1..Len(p)}

\* a reference no object has yet
NewRef(h) == CHOOSE r \in 1..(Cardinality(DOMAIN h) + 1) : r \notin DOMAIN h

\* the objects the registry can still reach
Reachable(p, h) == [r \in (DOMAIN h) \cap Refs(p) |-> h[r]]

\* References are names of objects and carry no other meaning: the model
\* names the objects 1, 2, ... in the order the registry first refers to them.
RECURSIVE DistinctRefs(_, _)
DistinctRefs(p, seen) ==
    IF p = <<>> THEN seen
    ELSE DistinctRefs(Tail(p), IF Includes(seen, Head(p).ref) THEN seen
                               ELSE Append(seen, Head(p).ref))

Renamed(p) ==
    LET order == DistinctRefs(p, <<>>)
    IN [i \in 1..Len(p) |-> [key |-> p[i].key, ref |-> IndexOf(order, p[i].ref)]]
RenamedHeap(p, h) ==
    LET order == DistinctRefs(p, <<>>)
    IN [n \in 1..Len(order) |-> h[order[n]]]

\* the checks addPath and updatePath make on pathInfo, in their order
ValidatePathInfo(pathInfo) ==
    IF TypeOf(pathInfo.label) # "string" THEN "InvalidLabel"
    ELSE IF TypeOf(pathInfo.path) # "function" THEN "InvalidPath"
    ELSE IF ~pathInfo.navs.arr THEN "InvalidNavs"
    ELSE IF Truthy(pathInfo.group) /\ TypeOf(pathInfo.group) # "string" THEN "InvalidGroup"
    ELSE IF pathInfo.type # "static" /\ pathInfo.type # "dynamic" THEN "InvalidType"
    ELSE "none"

\* addPath with the test for an existing key inverted
addPath_InvertedKeyTest(p, h, key, ref) ==
    IF PathsGet(p, key) = 0
    THEN [paths |-> p, heap |-> h, err |-> "DuplicateKey"]
    ELSE IF ValidatePathInfo(h[ref]) # "none"
    THEN [paths |-> p, heap |-> h, err |-> ValidatePathInfo(h[ref])]
    ELSE [paths |-> PathsSet(p, key, ref), heap |-> h, err |-> "none"]

\* addPath without the test for an existing key
addPath_NoKeyTest(p, h, key, ref) ==
    IF ValidatePathInfo(h[ref]) # "none"
    THEN [paths |-> p, heap |-> h, err |-> ValidatePathInfo(h[ref])]
    ELSE [paths |-> PathsSet(p, key, ref), heap |-> h, err |-> "none"]

\* addPath(key, pathInfo), pathInfo being the object ref of heap h
addPath(p, h, key, ref) ==
    IF PathsGet(p, key) # 0
    THEN [paths |-> p, heap |-> h, err |-> "DuplicateKey"]
    ELSE IF ValidatePathInfo(h[ref]) # "none"
    THEN [paths |-> p, heap |-> h, err |-> ValidatePathInfo(h[ref])]
    ELSE [paths |-> PathsSet(p, key, ref), heap |-> h, err |-> "none"]

\* updatePath storing the object before it validates it
updatePath_StoreFirst(p, h, key, ref) ==
    [paths |-> PathsSet(p, key, ref), heap |-> h, err |-> ValidatePathInfo(h[ref])]

\* updatePath without the check of type
updatePath_NoTypeCheck(p, h, key, ref) ==
    IF ValidatePathInfo([h[ref] EXCEPT !.type = "static"]) # "none"
    THEN [paths |-> p, heap |-> h, err |-> ValidatePathInfo(h[ref])]
    ELSE [paths |-> PathsSet(p, key, ref), heap |-> h, err |-> "none"]

\* updatePath(key, pathInfo)
updatePath(p, h, key, ref) ==
    IF ValidatePathInfo(h[ref]) # "none"
    THEN [paths |-> p, heap |-> h, err |-> ValidatePathInfo(h[ref])]
    ELSE [paths |-> PathsSet(p, key, ref), heap |-> h, err |-> "none"]

\* getPath(key): the PathInfo object, Undefined when there is none
getPath(p, h, key) ==
    IF PathsGet(p, key) # 0 THEN h[PathsGet(p, key)] ELSE Undefined

\* console.error(`Path '${key}' not found.`)
NotFound(key) == [ch |-> "error", msg |-> "Path not found", key |-> key]

\* the loop of addNav without its test of includes
PushEachUnique_NoIncludes(items, navs) == items \o navs

\* navs.forEach((nav) => { if (!pathInfo.navs.includes(nav)) pathInfo.navs.push(nav) })
RECURSIVE PushEachUnique(_, _)
PushEachUnique(items, navs) ==
    IF navs = <<>> THEN items
    ELSE PushEachUnique(IF Includes(items, Head(navs)) THEN items
                        ELSE Append(items, Head(navs)),
                        Tail(navs))

\* addNav going through its navs from the last to the first
addNav_LastFirst(p, h, key, navs) ==
    LET ref == PathsGet(p, key)
    IN IF ref # 0
       THEN [paths |-> p,
             heap |-> [h EXCEPT ![ref].navs.items =
                          PushEachUnique(@, [i \in 1..Len(navs) |-> navs[Len(navs) + 1 - i]])],
             err |-> "none", log |-> <<>>]
       ELSE [paths |-> p, heap |-> h, err |-> "none", log |-> <<NotFound(key)>>]

\* addNav putting a new object, without a group, in the place of the entry
addNav_WithoutGroup(p, h, key, navs) ==
    LET ref == PathsGet(p, key)
    IN IF ref # 0
       THEN [paths |-> p,
             heap |-> [h EXCEPT ![ref] = [label |-> @.label, path |-> @.path,
                                          navs |-> Arr(PushEachUnique(@.navs.items, navs)),
                                          group |-> Undefined, type |-> @.type]],
             err |-> "none", log |-> <<>>]
       ELSE [paths |-> p, heap |-> h, err |-> "none", log |-> <<NotFound(key)>>]

\* addNav(key, ...navs)
addNav(p, h, key, navs) ==
    LET ref == PathsGet(p, key)
    IN IF ref # 0
       THEN [paths |-> p,
             heap |-> [h EXCEPT ![ref].navs.items = PushEachUnique(@, navs)],
             err |-> "none", log |-> <<>>]
       ELSE [paths |-> p, heap |-> h, err |-> "none", log |-> <<NotFound(key)>>]

\* the loop of addPathsToNav without its test of includes
RECURSIVE AddPathsToNavFrom_NoIncludes(_, _, _, _, _)
AddPathsToNavFrom_NoIncludes(p, h, lg, keys, nav) ==
    IF keys = <<>> THEN [paths |-> p, heap |-> h, err |-> "none", log |-> lg]
    ELSE LET ref == PathsGet(p, Head(keys))
         IN IF ref # 0
            THEN AddPathsToNavFrom_NoIncludes(p,
                     [h EXCEPT ![ref].navs.items = Append(@, nav)],
                     lg, Tail(keys), nav)
            ELSE AddPathsToNavFrom_NoIncludes(p, h, Append(lg, NotFound(Head(keys))),
                                             Tail(keys), nav)

\* addPathsToNav(keys, nav): keys.forEach(...) over the heap h and the log lg
RECURSIVE AddPathsToNavFrom(_, _, _, _, _)
AddPathsToNavFrom(p, h, lg, keys, nav) ==
    IF keys = <<>> THEN [paths |-> p, heap |-> h, err |-> "none", log |-> lg]
    ELSE LET ref == PathsGet(p, Head(keys))
         IN IF ref # 0
            THEN AddPathsToNavFrom(p,
                     IF Includes(h[ref].navs.items, nav) THEN h
                     ELSE [h EXCEPT ![ref].navs.items = Append(@, nav)],
                     lg, Tail(keys), nav)
            ELSE AddPathsToNavFrom(p, h, Append(lg, NotFound(Head(keys))), Tail(keys), nav)

\* addPathsToNav giving up at the first key that is not there
addPathsToNav_StopAtMissing(p, h, keys, nav) ==
    LET missing == {i \in 1..Len(keys) : PathsGet(p, keys[i]) = 0}
        first == CHOOSE i \in missing : \A j \in missing : i <= j
    IN IF missing = {} THEN AddPathsToNavFrom(p, h, <<>>, keys, nav)
       ELSE AddPathsToNavFrom(p, h, <<>>, SubSeq(keys, 1, first), nav)

\* addPathsToNav(keys, nav)
addPathsToNav(p, h, keys, nav) == AddPathsToNavFrom(p, h, <<>>, keys, nav)

\* removeNav taking every occurrence of nav out of navs
removeNav_RemovesAll(p, h, key, nav) ==
    LET ref == PathsGet(p, key)
    IN IF ref # 0
       THEN [paths |-> p,
             heap |-> [h EXCEPT ![ref].navs.items = SelectSeq(@, LAMBDA x : x # nav)],
             err |-> "none", log |-> <<>>]
       ELSE [paths |-> p, heap |-> h, err |-> "none", log |-> <<NotFound(key)>>]

\* removeNav throwing for a key that is not there
removeNav_ThrowsOnMissing(p, h, key, nav) ==
    LET ref == PathsGet(p, key)
    IN IF ref # 0
       THEN LET index == IndexOf(h[ref].navs.items, nav)
            IN [paths |-> p,
                heap |-> IF index > 0
                         THEN [h EXCEPT ![ref].navs.items = Splice1(@, index)]
                         ELSE h,
                err |-> "none", log |-> <<>>]
       ELSE [paths |-> p, heap |-> h, err |-> "NotFound", log |-> <<>>]

\* removeNav taking the tag out of every entry when its key is present
removeNav_FromEveryEntry(p, h, key, nav) ==
    IF PathsGet(p, key) # 0
    THEN [paths |-> p,
          heap |-> [r \in DOMAIN h |->
                       IF IndexOf(h[r].navs.items, nav) > 0
                       THEN [h[r] EXCEPT !.navs.items = Splice1(@, IndexOf(h[r].navs.items, nav))]
                       ELSE h[r]],
          err |-> "none", log |-> <<>>]
    ELSE [paths |-> p, heap |-> h, err |-> "none", log |-> <<NotFound(key)>>]

\* removeNav(key, nav)
removeNav(p, h, key, nav) ==
    LET ref == PathsGet(p, key)
    IN IF ref # 0
       THEN LET index == IndexOf(h[ref].navs.items, nav)
            IN [paths |-> p,
                heap |-> IF index > 0
                         THEN [h EXCEPT ![ref].navs.items = Splice1(@, index)]
                         ELSE h,
                err |-> "none", log |-> <<>>]
       ELSE [paths |-> p, heap |-> h, err |-> "none", log |-> <<NotFound(key)>>]

\* { label: value.label, path: value.path }
NavLink(pathInfo) == [label |-> pathInfo.label, path |-> pathInfo.path]

\* getNavList(keyword): Object.entries(this.paths) in property order
RECURSIVE NavListFrom(_, _, _)
NavListFrom(p, h, keyword) ==
    IF p = <<>> THEN <<>>
    ELSE (IF Includes(h[Head(p).ref].navs.items, keyword)
          THEN <<NavLink(h[Head(p).ref])>> ELSE <<>>)
         \o NavListFrom(Tail(p), h, keyword)

getNavList(p, h, keyword) == NavListFrom(p, h, keyword)

\* makeNavList giving the links in the order of the registry
makeNavList_RegistryOrder(p, h, keys) ==
    LET held == SelectSeq(p, LAMBDA e : \E i \in 1..Len(keys) : keys[i] = e.key)
        absent == SelectSeq(keys, LAMBDA k : PathsGet(p, k) = 0)
    IN [links |-> [n \in 1..Len(held) |-> NavLink(h[held[n].ref])],
        log |-> [n \in 1..Len(absent) |-> NotFound(absent[n])]]

\* makeNavList(keys): keys.map(...).filter(navLink !== null), and what it logs
RECURSIVE makeNavList(_, _, _)
makeNavList(p, h, keys) ==
    IF keys = <<>> THEN [links |-> <<>>, log |-> <<>>]
    ELSE LET ref == PathsGet(p, Head(keys))
             rest == makeNavList(p, h, Tail(keys))
         IN IF ref # 0
            THEN [links |-> <<NavLink(h[ref])>> \o rest.links, log |-> rest.log]
            ELSE [links |-> rest.links, log |-> <<NotFound(Head(keys))>> \o rest.log]

----------------------------------------------------------------------------
(* The resolver: string helpers *)

LowerCase == <<"a", "b", "c", "d", "e", "f", "g", "h", "i", "j", "k", "l", "m",
               "n", "o", "p", "q", "r", "s", "t", "u", "v", "w", "x", "y", "z">>
UpperCase == <<"A", "B", "C", "D", "E", "F", "G", "H", "I", "J", "K", "L", "M",
               "N", "O", "P", "Q", "R", "S", "T", "U", "V", "W", "X", "Y", "Z">>

\* c.toUpperCase() and c.toLowerCase() of one character
ToUpper(c) ==
    IF \E i \in 1..26 : LowerCase[i] = c
    THEN UpperCase[CHOOSE i \in 1..26 : LowerCase[i] = c] ELSE c
ToLower(c) ==
    IF \E i \in 1..26 : UpperCase[i] = c
    THEN LowerCase[CHOOSE i \in 1..26 : UpperCase[i] = c] ELSE c

\* s.charAt(0).toUpperCase() + s.slice(1), and the same with toLowerCase
UpperFirst(s) == IF s = <<>> THEN s ELSE <<ToUpper(s[1])>> \o Tail(s)
LowerFirst(s) == IF s = <<>> THEN s ELSE <<ToLower(s[1])>> \o Tail(s)

StartsWith(s, c) == Len(s) > 0 /\ s[1] = c
EndsWith(s, c) == Len(s) > 0 /\ s[Len(s)] = c

\* s.split("/")
RECURSIVE SplitFrom(_, _)
SplitFrom(s, cur) ==
    IF s = <<>> THEN <<cur>>
    ELSE IF Head(s) = "/" THEN <<cur>> \o SplitFrom(Tail(s), <<>>)
    ELSE SplitFrom(Tail(s), Append(cur, Head(s)))

Split(s) == SplitFrom(s, <<>>)

\* segments.join(sep)
RECURSIVE Join(_, _)
Join(segments, sep) ==
    IF segments = <<>> THEN <<>>
    ELSE IF Len(segments) = 1 THEN Head(segments)
    ELSE Head(segments) \o sep \o Join(Tail(segments), sep)

\* the leftmost match of /\[.*?\]/ in s: <<from, to>>, <<0, 0>> when none
BracketMatch(s) ==
    IF \E i, j \in 1..Len(s) : i < j /\ s[i] = "[" /\ s[j] = "]"
    THEN LET from == CHOOSE i \in 1..Len(s) :
                        /\ s[i] = "["
                        /\ \A k \in 1..(i - 1) : s[k] # "["
             to == CHOOSE j \in (from + 1)..Len(s) :
                        /\ s[j] = "]"
                        /\ \A k \in (from + 1)..(j - 1) : s[k] # "]"
         IN <<from, to>>
    ELSE <<0, 0>>

\* the replacement string by as s.replace puts it in for the match m of s:
\* $$ is a "$", $& the match, $` what is before the match and $' what is
\* after it; the pattern has no groups, so that any other "$" stands for itself
RECURSIVE Expansion(_, _, _)
Expansion(by, s, m) ==
    IF by = <<>> THEN <<>>
    ELSE IF by[1] = "$" /\ Len(by) >= 2 /\ by[2] \in {"$", "&", "`", "'"}
    THEN (CASE by[2] = "$" -> <<"$">>
            [] by[2] = "&" -> SubSeq(s, m[1], m[2])
            [] by[2] = "`" -> SubSeq(s, 1, m[1] - 1)
            [] by[2] = "'" -> SubSeq(s, m[2] + 1, Len(s)))
         \o Expansion(SubSeq(by, 3, Len(by)), s, m)
    ELSE <<by[1]>> \o Expansion(Tail(by), s, m)

\* s.replace(/\[.*?\]/, by): the first match replaced
ReplaceBracket(s, by) ==
    LET m == BracketMatch(s)
    IN IF m[1] = 0 THEN s
       ELSE SubSeq(s, 1, m[1] - 1) \o Expansion(by, s, m) \o SubSeq(s, m[2] + 1, Len(s))

\* String(n) of a natural number n
RECURSIVE DecimalString(_)
DecimalString(n) ==
    IF n < 10 THEN <<CHOOSE c \in Digits : DigitVal(c) = n>>
    ELSE Append(DecimalString(n \div 10), CHOOSE c \in Digits : DigitVal(c) = n % 10)

\* `${arg}` of an argument that is a string or a number
TemplateString(arg) == IF arg.t = "number" THEN DecimalString(arg.n) ELSE arg.s

\* args.forEach((arg) => { dynamicPath = dynamicPath.replace(/\[.*?\]/, `${arg}`) })
RECURSIVE ReplaceEach(_, _)
ReplaceEach(dynamicPath, args) ==
    IF args = <<>> THEN dynamicPath
    ELSE ReplaceEach(ReplaceBracket(dynamicPath, TemplateString(Head(args))), Tail(args))

\* what the path function fn returns for args: "/" for the one of home, and
\* for one that addPathToManager made, `/${relativePath}` with the arguments
\* put in; a caller's function returns what the caller likes (here nothing)
CallPathFn(fn, args) ==
    IF fn.f = "home" THEN <<"/">>
    ELSE IF fn.f = "built" THEN ReplaceEach(<<"/">> \o fn.s, args)
    ELSE <<>>

\* singularise(word)
singularise(word) ==
    IF EndsWith(word, "s") THEN SubSeq(word, 1, Len(word) - 1) ELSE word

\* isDynamicPath(relativePath): /\[.*?\]/.test(relativePath)
isDynamicPath(relativePath) == BracketMatch(relativePath)[1] # 0

----------------------------------------------------------------------------
(* The resolver: from directories to PathInfo objects *)

\* the segments generateKeyAndLabel keeps
KeptSegments(relativePath) ==
    SelectSeq(Split(relativePath),
              LAMBDA segment : /\ segment # <<>>
                               /\ ~StartsWith(segment, "(")
                               /\ ~EndsWith(segment, ")"))

\* generateKeyAndLabel(relativePath, cleanItem).  With no segment kept,
\* lastSegment is undefined and the test of the pattern on it is false.
generateKeyAndLabel(relativePath, cleanItem) ==
    LET segments == KeptSegments(relativePath)
        lastIsDynamic == segments # <<>> /\ isDynamicPath(segments[Len(segments)])
        nonDynamicSegments == SelectSeq(segments, LAMBDA segment : ~isDynamicPath(segment))
        capitalisedSegments ==
            [i \in 1..Len(nonDynamicSegments) |->
                singularise(UpperFirst(nonDynamicSegments[i]))]
    IN IF lastIsDynamic
       THEN [key |-> LowerFirst(<<"v", "i", "e", "w">> \o Join(capitalisedSegments, <<>>)),
             label |-> <<"V", "i", "e", "w", " ">> \o Join(capitalisedSegments, <<" ">>)]
       ELSE [key |-> LowerFirst(cleanItem), label |-> UpperFirst(cleanItem)]

\* the PathInfo object addPathToManager makes
BuiltPathInfo(relativePath, cleanItem, group) ==
    [label |-> Str(generateKeyAndLabel(relativePath, cleanItem).label),
     path |-> BuiltFn(relativePath),
     navs |-> Arr(<<>>),
     group |-> IF Truthy(group) THEN group ELSE Str(<<>>),
     type |-> IF isDynamicPath(relativePath) THEN "dynamic" ELSE "static"]

\* the registry r without the objects nothing refers to
Collected(r) == [paths |-> r.paths, heap |-> Reachable(r.paths, r.heap), err |-> r.err]

\* addPathToManager(relativePath, cleanItem, group) on the registry st
addPathToManager(st, relativePath, cleanItem, group) ==
    Collected(addPath(st.paths,
                      NewRef(st.heap) :> BuiltPathInfo(relativePath, cleanItem, group) @@ st.heap,
                      generateKeyAndLabel(relativePath, cleanItem).key,
                      NewRef(st.heap)))

\* path.relative(baseDir, path.join(dir, item)), dir being baseDir/prefix
RelativePath(prefix, item) == IF prefix = <<>> THEN item ELSE prefix \o <<"/">> \o item

\* The walk w is the registry (w.st) and the stack of the calls of
\* locateSubDirs that have not returned (w.stack): a frame is the rest of the
\* listing of a directory (items), the directory's path relative to baseDir
\* (prefix) and the group.  A thrown error (w.st.err) skips all that follows it.

\* locateSubDirs(dir, baseDir, group): fs.readdirSync(dir), then items.forEach
locateSubDirs(w, dir, prefix, group) ==
    IF w.st.err # "none" THEN w
    ELSE IF dir.io = "readdirFails" THEN [w EXCEPT !.st.err = "IOError"]
    ELSE [w EXCEPT !.stack = Append(@, [items |-> dir.kids, prefix |-> prefix, group |-> group])]

\* processDirectory keeping the group it is in when it meets a group marker
processDirectory_OuterGroupWins(w, node, relativePath, group) ==
    IF StartsWith(node.name, "(") /\ EndsWith(node.name, ")")
    THEN locateSubDirs(w, node, relativePath,
                       IF Truthy(group) THEN group
                       ELSE Str(SubSeq(node.name, 2, Len(node.name) - 1)))
    ELSE locateSubDirs([w EXCEPT !.st = addPathToManager(@, relativePath,
                                                         ReplaceBracket(node.name, <<>>),
                                                         group)],
                       node, relativePath, group)

\* processDirectory(item, fullPath, relativePath, baseDir, group)
processDirectory(w, node, relativePath, group) ==
    IF StartsWith(node.name, "(") /\ EndsWith(node.name, ")")
    THEN locateSubDirs(w, node, relativePath,
                       Str(SubSeq(node.name, 2, Len(node.name) - 1)))
    ELSE locateSubDirs([w EXCEPT !.st = addPathToManager(@, relativePath,
                                                         ReplaceBracket(node.name, <<>>),
                                                         group)],
                       node, relativePath, group)

\* the callback of items.forEach in locateSubDirs, for one item
ForItem(w, node, prefix, group) ==
    IF node.io = "statFails" THEN [w EXCEPT !.st.err = "IOError"]
    ELSE IF node.isDir
    THEN processDirectory(w, node, RelativePath(prefix, node.name), group)
    ELSE w

\* the top call of the stack goes on by one item, or returns
WalkStep(w) ==
    LET top == w.stack[Len(w.stack)]
        below == SubSeq(w.stack, 1, Len(w.stack) - 1)
    IN IF top.items = <<>> THEN [w EXCEPT !.stack = below]
       ELSE ForItem([w EXCEPT !.stack = Append(below, [top EXCEPT !.items = Tail(@)])],
                    Head(top.items), top.prefix, top.group)

\* the calls of the stack run to their end, or to a thrown error
RECURSIVE RunWalk(_)
RunWalk(w) ==
    IF w.stack = <<>> \/ w.st.err # "none" THEN w.st ELSE RunWalk(WalkStep(w))

\* locateSubDirs(appDirPath, appDirPath) and all it calls
Walk(st, appDir) ==
    RunWalk(locateSubDirs([st |-> st, stack |-> <<>>], appDir, <<>>, Undefined))

----------------------------------------------------------------------------
(* The file system the walk reads *)

Dir(name, kids) == [name |-> name, isDir |-> TRUE, io |-> "ok", kids |-> kids]
File(name) == [name |-> name, isDir |-> FALSE, io |-> "ok", kids |-> <<>>]
\* fs.statSync throws for a path that does not exist
Missing == [name |-> <<>>, isDir |-> FALSE, io |-> "statFails", kids |-> <<>>]
\* a directory whose fs.statSync throws, and one whose fs.readdirSync throws
NoStat(name, kids) == [name |-> name, isDir |-> TRUE, io |-> "statFails", kids |-> kids]
NoList(name, kids) == [name |-> name, isDir |-> TRUE, io |-> "readdirFails", kids |-> kids]

\* locateAppDir trying src/app before app
locateAppDir_SrcFirst(project) ==
    LET possiblePaths == <<project.app, project.srcApp>>
        isAppDir(i) == possiblePaths[i].io # "statFails" /\ possiblePaths[i].isDir
    IN IF isAppDir(2) THEN 2 ELSE IF isAppDir(1) THEN 1 ELSE 0

\* locateAppDir(projectRoot): 1 for <root>/app, 2 for <root>/src/app, 0 for false
locateAppDir(project) ==
    LET possiblePaths == <<project.app, project.srcApp>>
        isAppDir(i) == possiblePaths[i].io # "statFails" /\ possiblePaths[i].isDir
    IN IF isAppDir(1) THEN 1 ELSE IF isAppDir(2) THEN 2 ELSE 0

\* getAppDir(): what locateAppDir returns, false (0) when that is falsy
getAppDir(project) == IF locateAppDir(project) # 0 THEN locateAppDir(project) ELSE 0

ConsoleLog(msg) == [ch |-> "log", msg |-> msg, key |-> <<>>]
ConsoleError(msg) == [ch |-> "error", msg |-> msg, key |-> <<>>]

Home == <<"h", "o", "m", "e">>

\* the object of home with an empty group
HomePathInfo_EmptyGroup ==
    [label |-> Str(<<"H", "o", "m", "e">>), path |-> HomeFn, navs |-> Arr(<<>>),
     group |-> Str(<<>>), type |-> "static"]

\* home: { label: "Home", path: () => "/", navs: [], type: "static" }
HomePathInfo ==
    [label |-> Str(<<"H", "o", "m", "e">>), path |-> HomeFn, navs |-> Arr(<<>>),
     group |-> Undefined, type |-> "static"]

\* buildPathList emptying the registry when it finds no app directory
buildPathListOn_EmptiesWhenNotFound(p, h, appDirPath, walked) ==
    IF appDirPath # 0
    THEN IF walked.err # "none"
         THEN [paths |-> walked.paths, heap |-> walked.heap, err |-> walked.err,
               log |-> <<ConsoleLog("***** Path Manager *****")>>]
         ELSE [paths |-> walked.paths, heap |-> walked.heap, err |-> "none",
               log |-> <<ConsoleLog("***** Path Manager *****"),
                         ConsoleLog("App router detected"),
                         ConsoleLog("Paths have been generated"),
                         ConsoleLog("Ensure you read the docs for more information"),
                         ConsoleLog("************************")>>]
    ELSE [paths |-> EmptyPaths, heap |-> <<>>, err |-> "none",
          log |-> <<ConsoleLog("***** Path Manager *****"),
                    ConsoleError("App directory not found in the project root:"),
                    ConsoleLog("************************")>>]

\* buildPathList() from its test of appDirPath on: walked is the registry
\* after this.paths = {home: ...} and locateSubDirs(appDirPath, appDirPath)
buildPathListOn(p, h, appDirPath, walked) ==
    IF appDirPath # 0
    THEN IF walked.err # "none"
         THEN [paths |-> walked.paths, heap |-> walked.heap, err |-> walked.err,
               log |-> <<ConsoleLog("***** Path Manager *****")>>]
         ELSE [paths |-> walked.paths, heap |-> walked.heap, err |-> "none",
               log |-> <<ConsoleLog("***** Path Manager *****"),
                         ConsoleLog("App router detected"),
                         ConsoleLog("Paths have been generated"),
                         ConsoleLog("Ensure you read the docs for more information"),
                         ConsoleLog("************************")>>]
    ELSE [paths |-> p, heap |-> h, err |-> "none",
          log |-> <<ConsoleLog("***** Path Manager *****"),
                    ConsoleError("App directory not found in the project root:"),
                    ConsoleLog("************************")>>]

\* the registry of this.paths = {home: ...}
Seeded == [paths |-> <<[key |-> Home, ref |-> 1]>>, heap |-> 1 :> HomePathInfo, err |-> "none"]

\* buildPathList walking into the registry as it is, home set anew
buildPathList_KeepsOld(p, h, project) ==
    buildPathListOn(p, h, locateAppDir(project),
                    Walk([paths |-> PathsSet(p, Home, NewRef(h)),
                          heap |-> NewRef(h) :> HomePathInfo @@ h,
                          err |-> "none"],
                         <<project.app, project.srcApp>>[locateAppDir(project)]))

\* buildPathList giving each entry it makes the navs that its key had before
buildPathList_KeepsNavs(p, h, project) ==
    LET carried(walked) ==
            [walked EXCEPT !.heap =
                [r \in DOMAIN walked.heap |->
                    LET key == walked.paths[CHOOSE i \in 1..Len(walked.paths) :
                                               walked.paths[i].ref = r].key
                    IN IF HasKey(p, key)
                       THEN [walked.heap[r] EXCEPT !.navs = h[PathsGet(p, key)].navs]
                       ELSE walked.heap[r]]]
    IN buildPathListOn(p, h, locateAppDir(project),
                       carried(Walk(Seeded,
                                    <<project.app, project.srcApp>>[locateAppDir(project)])))

\* buildPathList setting this.paths = {home: ...} only when there is no home yet
buildPathList_SeedsOnce(p, h, project) ==
    buildPathListOn(p, h, locateAppDir(project),
                    Walk(IF HasKey(p, Home) THEN [paths |-> p, heap |-> h, err |-> "none"]
                         ELSE Seeded,
                         <<project.app, project.srcApp>>[locateAppDir(project)]))

\* buildPathList() on the registry (p, h), the project directory being project
buildPathList(p, h, project) ==
    buildPathListOn(p, h, locateAppDir(project),
                    Walk(Seeded, <<project.app, project.srcApp>>[locateAppDir(project)]))

----------------------------------------------------------------------------
(* The inputs the model draws from *)

\* project directories: no app directory at all; an app directory that holds
\* one file; a file named app; app/users/[id] and app/about; app/a/set and
\* app/b/set; app/(auth)/login beside a file; src/app alone; app and src/app;
\* a file named app beside src/app; an app directory whose stat fails beside
\* src/app; a file named src/app; an app directory with a directory that
\* cannot be listed; groups in groups; directories named [a and b]
ProjectNames == {"none", "bare"}

ProjectOf(name) ==
    CASE name = "none" -> [app |-> Missing, srcApp |-> Missing]
      [] name = "bare" ->
           [app |-> Dir(<<"a", "p", "p">>,
                        <<File(<<"p", "a", "g", "e", ".", "t", "s", "x">>)>>),
            srcApp |-> Missing]
      [] name = "fileApp" ->
           [app |-> File(<<"a", "p", "p">>), srcApp |-> Missing]
      [] name = "users" ->
           [app |-> Dir(<<"a", "p", "p">>,
                        <<Dir(<<"u", "s", "e", "r", "s">>,
                              <<Dir(<<"[", "i", "d", "]">>, <<>>),
                                File(<<"p", "a", "g", "e", ".", "t", "s", "x">>)>>),
                          Dir(<<"a", "b", "o", "u", "t">>, <<>>)>>),
            srcApp |-> Missing]
      [] name = "clash" ->
           [app |-> Dir(<<"a", "p", "p">>,
                        <<Dir(<<"a">>, <<Dir(<<"s", "e", "t">>, <<>>)>>),
                          Dir(<<"b">>, <<Dir(<<"s", "e", "t">>, <<>>)>>)>>),
            srcApp |-> Missing]
      [] name = "auth" ->
           [app |-> Dir(<<"a", "p", "p">>,
                        <<Dir(<<"(", "a", "u", "t", "h", ")">>,
                              <<Dir(<<"l", "o", "g", "i", "n">>, <<>>)>>),
                          File(<<"p", "a", "g", "e", ".", "t", "s", "x">>)>>),
            srcApp |-> Missing]
      [] name = "srcOnly" ->
           [app |-> Missing,
            srcApp |-> Dir(<<"a", "p", "p">>, <<Dir(<<"a", "b", "o", "u", "t">>, <<>>)>>)]
      [] name = "both" ->
           [app |-> Dir(<<"a", "p", "p">>, <<Dir(<<"d", "o", "c", "s">>, <<>>)>>),
            srcApp |-> Dir(<<"a", "p", "p">>, <<Dir(<<"a", "b", "o", "u", "t">>, <<>>)>>)]
      [] name = "fileAppSrc" ->
           [app |-> File(<<"a", "p", "p">>),
            srcApp |-> Dir(<<"a", "p", "p">>, <<Dir(<<"a", "b", "o", "u", "t">>, <<>>)>>)]
      [] name = "denied" ->
           [app |-> NoStat(<<"a", "p", "p">>, <<Dir(<<"d", "o", "c", "s">>, <<>>)>>),
            srcApp |-> Dir(<<"a", "p", "p">>, <<Dir(<<"a", "b", "o", "u", "t">>, <<>>)>>)]
      [] name = "srcFile" ->
           [app |-> Missing, srcApp |-> File(<<"a", "p", "p">>)]
      [] name = "locked" ->
           [app |-> Dir(<<"a", "p", "p">>,
                        <<Dir(<<"a">>, <<>>),
                          NoList(<<"b">>, <<Dir(<<"c">>, <<>>)>>),
                          Dir(<<"d">>, <<>>)>>),
            srcApp |-> Missing]
      [] name = "groups" ->
           [app |-> Dir(<<"a", "p", "p">>,
                        <<Dir(<<"(", "a", ")">>,
                              <<Dir(<<"x">>,
                                    <<Dir(<<"(", "b", ")">>, <<Dir(<<"y">>, <<>>)>>),
                                      Dir(<<"u">>, <<>>)>>),
                                Dir(<<"z">>, <<>>)>>),
                          Dir(<<"w">>, <<>>),
                          Dir(<<"(", ")">>, <<Dir(<<"v">>, <<>>)>>)>>),
            srcApp |-> Missing]
      [] name = "split" ->
           [app |-> Dir(<<"a", "p", "p">>,
                        <<Dir(<<"[", "a">>, <<Dir(<<"b", "]">>, <<>>)>>)>>),
            srcApp |-> Missing]

\* the keys callers pass
UserKeys == {<<"a">>, Home}

\* the tags callers pass
Tags == {"main", "side"}

\* the PathInfo objects callers make: valid ones, one of them with a tag
\* twice in navs ...
ValidInputs ==
    { [label |-> Str(<<"A">>), path |-> UserFn(1), navs |-> Arr(<<>>),
       group |-> Undefined, type |-> "static"],
      [label |-> Str(<<"B">>), path |-> UserFn(2), navs |-> Arr(<<"main", "main">>),
       group |-> Str(<<"g">>), type |-> "dynamic"] }

\* ... one with a group that is the number 0 ...
ZeroGroupInput ==
    [label |-> Str(<<"A">>), path |-> UserFn(1), navs |-> Arr(<<>>),
     group |-> Num(0), type |-> "static"]

\* ... and ones with one field of the wrong type each
InvalidInputs ==
    { [label |-> Num(123), path |-> UserFn(1), navs |-> Arr(<<>>),
       group |-> Undefined, type |-> "static"],
      [label |-> Str(<<"A">>), path |-> Str(<<"n", "o">>), navs |-> Arr(<<>>),
       group |-> Undefined, type |-> "static"],
      [label |-> Str(<<"A">>), path |-> UserFn(1), navs |-> NotAnArray,
       group |-> Undefined, type |-> "static"],
      [label |-> Str(<<"A">>), path |-> UserFn(1), navs |-> Arr(<<>>),
       group |-> Num(123), type |-> "static"],
      [label |-> Str(<<"A">>), path |-> UserFn(1), navs |-> Arr(<<>>),
       group |-> Undefined, type |-> "invalid"] }

PathInfoInputs == ValidInputs \cup {ZeroGroupInput} \cup InvalidInputs

\* sequences over S of at most n elements
ArgLists(S, n) == UNION {[1..k -> S] : k \in 0..n}

\* a pathInfo argument: a new object (ref 0) or an object of the registry,
\* which a caller has from getPath or getPaths
PathInfoArgs(h) ==
    {[ref |-> 0, info |-> v, project |-> ""] : v \in PathInfoInputs}
        \cup {[ref |-> r, info |-> h[r], project |-> ""] : r \in DOMAIN h}

\* the heap with the argument in it, and the argument's reference
HeapWith(h, arg) == IF arg.ref = 0 THEN NewRef(h) :> arg.info @@ h ELSE h
RefOfArg(h, arg) == IF arg.ref = 0 THEN NewRef(h) ELSE arg.ref

----------------------------------------------------------------------------
(* The state machine *)

NoRet == [ref |-> 0, links |-> <<>>]

\* what stands for the pathInfo argument of a call that has none
NoInfo == [label |-> Undefined, path |-> Undefined, navs |-> NotAnArray,
           group |-> Undefined, type |-> ""]

\* a call: the method, its key or keys, its tags, its pathInfo argument (the
\* object's fields, and its reference when the registry already holds it,
\* else 0) and, for the two calls that read the file system, the project
\* directory they find
Call(op, key, keys, navs, arg) ==
    [op |-> op, key |-> key, keys |-> keys, navs |-> navs,
     ref |-> arg.ref, info |-> arg.info, project |-> arg.project]
NoArg == [ref |-> 0, info |-> NoInfo, project |-> ""]

\* the instance new PathManager() leaves: it exists when buildPathList,
\* whose outcome is built, has not thrown
Constructed(built, c) ==
    /\ built.err = "none"
    /\ paths = built.paths
    /\ heap = built.heap
    /\ log = built.log
    /\ err = "none"
    /\ call = c
    /\ ret = NoRet

\* new PathManager(): this.paths = {} and then buildPathList()
Init ==
    \E project \in ProjectNames :
        Constructed(buildPathList(EmptyPaths, <<>>, ProjectOf(project)),
                    Call("constructor", <<>>, <<>>, <<>>,
                         [ref |-> 0, info |-> NoInfo, project |-> project]))

\* the state after the call c whose outcome is r, a call that can change
\* this.paths; objects nothing refers to go
Outcome(r, c) ==
    /\ paths' = Renamed(r.paths)
    /\ heap' = RenamedHeap(r.paths, r.heap)
    /\ err' = r.err
    /\ log' = IF "log" \in DOMAIN r THEN r.log ELSE <<>>
    /\ ret' = NoRet
    /\ call' = c

\* the state after the call c whose outcome is r, a call that only changes
\* objects
NavOutcome(r, c) ==
    /\ paths' = r.paths
    /\ heap' = r.heap
    /\ err' = r.err
    /\ log' = r.log
    /\ ret' = NoRet
    /\ call' = c

\* the state after the call c that returns links and logs lg
Returned(r, c) ==
    /\ ret' = [ref |-> 0, links |-> r.links]
    /\ log' = r.log
    /\ err' = "none"
    /\ call' = c
    /\ UNCHANGED <<paths, heap>>

AddPath(key, arg) ==
    Outcome(addPath(paths, HeapWith(heap, arg), key, RefOfArg(heap, arg)),
            Call("addPath", key, <<>>, <<>>, arg))

UpdatePath(key, arg) ==
    Outcome(updatePath(paths, HeapWith(heap, arg), key, RefOfArg(heap, arg)),
            Call("updatePath", key, <<>>, <<>>, arg))

AddNav(key, navs) ==
    NavOutcome(addNav(paths, heap, key, navs), Call("addNav", key, <<>>, navs, NoArg))

AddPathsToNav(keys, nav) ==
    NavOutcome(addPathsToNav(paths, heap, keys, nav),
               Call("addPathsToNav", <<>>, keys, <<nav>>, NoArg))

RemoveNav(key, nav) ==
    NavOutcome(removeNav(paths, heap, key, nav), Call("removeNav", key, <<>>, <<nav>>, NoArg))

GetPath(key) ==
    /\ ret' = [ref |-> PathsGet(paths, key), links |-> <<>>]
    /\ log' = <<>>
    /\ err' = "none"
    /\ call' = Call("getPath", key, <<>>, <<>>, NoArg)
    /\ UNCHANGED <<paths, heap>>

GetNavList(keyword) ==
    Returned([links |-> getNavList(paths, heap, keyword), log |-> <<>>],
             Call("getNavList", <<>>, <<>>, <<keyword>>, NoArg))

MakeNavList(keys) ==
    Returned(makeNavList(paths, heap, keys), Call("makeNavList", <<>>, keys, <<>>, NoArg))

\* getAppDir(), the project directory being what it is at the call
GetAppDir(project) ==
    /\ ret' = [ref |-> 0, links |-> <<>>, appDir |-> getAppDir(ProjectOf(project))]
    /\ log' = <<>>
    /\ err' = "none"
    /\ call' = Call("getAppDir", <<>>, <<>>, <<>>,
                    [ref |-> 0, info |-> NoInfo, project |-> project])
    /\ UNCHANGED <<paths, heap>>

\* buildPathList(), the project directory being what it is at the call
BuildPathList(project) ==
    Outcome(buildPathList(paths, heap, ProjectOf(project)),
            Call("buildPathList", <<>>, <<>>, <<>>,
                 [ref |-> 0, info |-> NoInfo, project |-> project]))

Next ==
    \/ \E key \in UserKeys, arg \in PathInfoArgs(heap) : AddPath(key, arg)
    \/ \E key \in UserKeys, arg \in PathInfoArgs(heap) : UpdatePath(key, arg)
    \/ \E key \in UserKeys, navs \in ArgLists(Tags, MaxArgs) : AddNav(key, navs)
    \/ \E keys \in ArgLists(UserKeys, MaxArgs), nav \in Tags : AddPathsToNav(keys, nav)
    \/ \E key \in UserKeys, nav \in Tags : RemoveNav(key, nav)
    \/ \E key \in UserKeys : GetPath(key)
    \/ \E keyword \in Tags : GetNavList(keyword)
    \/ \E keys \in ArgLists(UserKeys, MaxArgs) : MakeNavList(keys)
    \/ \E project \in ProjectNames : BuildPathList(project)

Spec == Init /\ [][Next]_vars

----------------------------------------------------------------------------
(* The same machine with keys that are array indices, for the order in which
   the registry is gone through *)

OrderKeys == {<<"2">>, <<"1", "0">>, <<"b">>}

\* new PathInfo objects with the tag "main" and without it
OrderArgs ==
    { [ref |-> 0, project |-> "",
       info |-> [label |-> Str(<<"A">>), path |-> UserFn(1), navs |-> Arr(<<"main">>),
                 group |-> Undefined, type |-> "static"]],
      [ref |-> 0, project |-> "",
       info |-> [label |-> Str(<<"B">>), path |-> UserFn(2), navs |-> Arr(<<>>),
                 group |-> Undefined, type |-> "static"]] }

OrderNext ==
    \/ \E key \in OrderKeys, arg \in OrderArgs : AddPath(key, arg)
    \/ \E key \in OrderKeys, arg \in OrderArgs : UpdatePath(key, arg)
    \/ \E key \in OrderKeys \cup {Home} : AddNav(key, <<"main">>)
    \/ GetNavList("main")
    \/ BuildPathList("bare")

OrderSpec == Init /\ [][OrderNext]_vars

----------------------------------------------------------------------------
(* What the claims speak of *)

\* a valid entry as the registry's contract has it: label a string, path a
\* function, navs an array, group absent or a string, type static or dynamic
ValidEntry(info) ==
    /\ TypeOf(info.label) = "string"
    /\ TypeOf(info.path) = "function"
    /\ info.navs.arr
    /\ (info.group = Undefined \/ TypeOf(info.group) = "string")
    /\ info.type \in {"static", "dynamic"}

\* the error the contract names for an entry, "none" for a valid one
ContractError(info) ==
    IF TypeOf(info.label) # "string" THEN "InvalidLabel"
    ELSE IF TypeOf(info.path) # "function" THEN "InvalidPath"
    ELSE IF ~info.navs.arr THEN "InvalidNavs"
    ELSE IF info.group # Undefined /\ TypeOf(info.group) # "string" THEN "InvalidGroup"
    ELSE IF info.type \notin {"static", "dynamic"} THEN "InvalidType"
    ELSE "none"

\* the navs of the entry under a present key
NavsOf(p, h, key) == h[PathsGet(p, key)].navs.items

Count(seq, x) == Cardinality({i \in 1..Len(seq) : seq[i] = x})

C2_DuplicateKeyRejected ==
    [][(call'.op = "addPath" /\ HasKey(paths, call'.key))
          => /\ err' = "DuplicateKey"
             /\ getPath(paths', heap', call'.key) = getPath(paths, heap, call'.key)
             /\ paths' = paths
             /\ heap' = heap]_vars

C2_Witness ==
    /\ call.op = "addPath"
    /\ err = "DuplicateKey"
    /\ HasKey(paths, call.key)
    /\ ValidEntry(call.info)
    /\ getPath(paths, heap, call.key) # call.info

\* C3: addPath on a key that is not in the registry fails with the error of
\* the offending field whenever a field is wrong, group being wrong for any
\* value that is there and is not a string, and succeeds otherwise
C3_InsertValidates ==
    [][(call'.op = "addPath" /\ ~HasKey(paths, call'.key))
          => err' = ContractError(call'.info)]_vars

\* C4: a call of addPath or updatePath that throws leaves the registry as it was
C4_FailedCallChangesNothing ==
    [][(call'.op \in {"addPath", "updatePath"} /\ err' # "none")
          => paths' = paths /\ heap' = heap]_vars

C4_Witness ==
    /\ call.op = "updatePath"
    /\ err = "InvalidNavs"
    /\ HasKey(paths, call.key)

\* C5: updatePath with a valid entry succeeds whether or not the key is there,
\* getPath then returns the entry and every other key has what it had; and
\* updatePath throws what addPath on a key that is not there throws
C5_UpdateOverwrites ==
    [][call'.op = "updatePath"
          => /\ ValidEntry(call'.info)
                => /\ err' = "none"
                   /\ getPath(paths', heap', call'.key) = call'.info
                   /\ KeysOf(paths') = KeysOf(paths) \cup {call'.key}
                   /\ \A other \in KeysOf(paths) \ {call'.key} :
                         getPath(paths', heap', other) = getPath(paths, heap, other)
             /\ err' = addPath(EmptyPaths, 1 :> call'.info, call'.key, 1).err]_vars

C5_Witness ==
    /\ call.op = "updatePath"
    /\ err = "none"
    /\ Len(paths) >= 2
    /\ ValidEntry(call.info)

\* C6 as the specification has it: in every reachable state no entry's navs
\* holds the same tag more than once
C6_NoDuplicateTags ==
    \A key \in KeysOf(paths) : \A t \in Tags : Count(NavsOf(paths, heap, key), t) <= 1

\* C6, amended: addNav, addPathsToNav, removeNav and buildPathList never bring
\* a tag into an entry's navs a second time; an entry's navs holds a tag more
\* than once after a step only when it did before, or when the step is an
\* addPath or updatePath on that key whose pathInfo has navs that hold the tag
\* more than once
C6_TagCallsAddNoDuplicate ==
    [][\A key \in KeysOf(paths') : \A t \in Tags :
          Count(NavsOf(paths', heap', key), t) > 1
          => \/ HasKey(paths, key) /\ Count(NavsOf(paths, heap, key), t) > 1
             \/ /\ call'.op \in {"addPath", "updatePath"}
                /\ call'.key = key
                /\ call'.info.navs.arr
                /\ Count(call'.info.navs.items, t) > 1]_vars

C6_Witness ==
    /\ call.op = "addNav"
    /\ Len(call.navs) = 2
    /\ call.navs[1] = call.navs[2]
    /\ HasKey(paths, call.key)
    /\ Count(NavsOf(paths, heap, call.key), call.navs[1]) = 1

\* C7 as the specification has it: after addNav on a present key the entry's
\* navs holds each tag of the call exactly once
C7_AddedTagExactlyOnce ==
    [][(call'.op = "addNav" /\ HasKey(paths, call'.key))
          => \A i \in 1..Len(call'.navs) :
                Count(NavsOf(paths', heap', call'.key), call'.navs[i]) = 1]_vars

\* the number of times navs holds a tag after the tag is added to it
CountAfterAdd(before) == IF before = 0 THEN 1 ELSE before

\* C7, amended: addNav and addPathsToNav leave a tag they add once in the navs
\* of a present key when it was not there, and as often as it was there
\* otherwise (more than once only for an entry that came with it so); adding
\* the tag again, by either call or after a removeNav of it when it is there
\* once, changes nothing
C7_AddIsIdempotent ==
    [][/\ (call'.op = "addNav" /\ HasKey(paths, call'.key))
          => \A i \in 1..Len(call'.navs) :
                LET t == call'.navs[i]
                    removed == removeNav(paths', heap', call'.key, t)
                IN /\ Count(NavsOf(paths', heap', call'.key), t)
                        = CountAfterAdd(Count(NavsOf(paths, heap, call'.key), t))
                   /\ addNav(paths', heap', call'.key, <<t>>).heap = heap'
                   /\ addNav(paths', heap', call'.key, call'.navs).heap = heap'
                   /\ addPathsToNav(paths', heap', <<call'.key>>, t).heap = heap'
                   /\ Count(NavsOf(paths, heap, call'.key), t) <= 1
                      => Count(NavsOf(paths', addNav(paths', removed.heap, call'.key, <<t>>).heap,
                                      call'.key), t) = 1
       /\ call'.op = "addPathsToNav"
          => \A i \in 1..Len(call'.keys) :
                HasKey(paths, call'.keys[i])
                => /\ Count(NavsOf(paths', heap', call'.keys[i]), call'.navs[1])
                        = CountAfterAdd(Count(NavsOf(paths, heap, call'.keys[i]), call'.navs[1]))
                   /\ addPathsToNav(paths', heap', call'.keys, call'.navs[1]).heap = heap'
                   /\ addNav(paths', heap', call'.keys[i], call'.navs).heap = heap']_vars

C7_Witness ==
    /\ call.op = "addPathsToNav"
    /\ Len(call.keys) = 2
    /\ call.keys[1] = call.keys[2]
    /\ HasKey(paths, call.keys[1])
    /\ NavsOf(paths, heap, call.keys[1]) = <<call.navs[1]>>

\* the elements of the set S of numbers, from the least up
RECURSIVE Ascending(_)
Ascending(S) ==
    IF S = {} THEN <<>>
    ELSE LET least == CHOOSE x \in S : \A y \in S : x <= y
         IN <<least>> \o Ascending(S \ {least})

\* those of navs that items does not hold, each once, in the order of their
\* first occurrence in navs
FreshTags(items, navs) ==
    LET at == Ascending({i \in 1..Len(navs) :
                            /\ \A k \in 1..Len(items) : items[k] # navs[i]
                            /\ \A j \in 1..(i - 1) : navs[j] # navs[i]})
    IN [n \in 1..Len(at) |-> navs[at[n]]]

\* C8: addNav on a present key leaves the entry's navs equal to what it was,
\* followed by those tags of the call that were not in it, each once, in the
\* order of their first occurrence in the call
C8_AddNavAppendsInOrder ==
    [][(call'.op = "addNav" /\ HasKey(paths, call'.key))
          => /\ err' = "none"
             /\ NavsOf(paths', heap', call'.key)
                  = NavsOf(paths, heap, call'.key)
                    \o FreshTags(NavsOf(paths, heap, call'.key), call'.navs)]_vars

C8_Witness ==
    /\ call.op = "addNav"
    /\ Len(call.navs) = 2
    /\ call.navs[1] # call.navs[2]
    /\ HasKey(paths, call.key)
    /\ NavsOf(paths, heap, call.key) = <<call.navs[2], call.navs[1]>>

AbsentKeys(p, keys) ==
    LET at == Ascending({i \in 1..Len(keys) : ~HasKey(p, keys[i])})
    IN [n \in 1..Len(at) |-> keys[at[n]]]

----------------------------------------------------------------------------
(* The same machine over more project directories, for what buildPathList
   makes of a directory tree *)

WalkProjects ==
    {"none", "fileApp", "bare", "auth", "users", "clash", "srcOnly", "both", "fileAppSrc",
     "denied", "srcFile", "locked", "groups", "split"}

WalkKeys == {<<"a">>, <<"l", "o", "g", "i", "n">>}

\* a new PathInfo object of a caller
WalkArg ==
    [ref |-> 0, project |-> "",
     info |-> [label |-> Str(<<"A">>), path |-> UserFn(1), navs |-> Arr(<<>>),
               group |-> Undefined, type |-> "static"]]

\* new PathManager() in one of the project directories
WalkInit ==
    \E project \in WalkProjects :
        Constructed(buildPathList(EmptyPaths, <<>>, ProjectOf(project)),
                    Call("constructor", <<>>, <<>>, <<>>,
                         [ref |-> 0, info |-> NoInfo, project |-> project]))

WalkNext ==
    \/ \E project \in WalkProjects : BuildPathList(project)
    \/ \E key \in WalkKeys : AddPath(key, WalkArg)
    \/ \E key \in WalkKeys : UpdatePath(key, WalkArg)
    \/ \E key \in WalkKeys \cup {Home} : AddNav(key, <<"main">>)
    \/ GetNavList("main")
    \/ \E project \in WalkProjects : GetAppDir(project)

WalkSpec == WalkInit /\ [][WalkNext]_vars

----------------------------------------------------------------------------
(* generateKeyAndLabel on its own: the state is the call and what it returns *)

\* names of directories: plain ones, one that is the letter s, a dynamic
\* one, a group marker, and two with one parenthesis
SegmentNames ==
    { <<"u", "s", "e", "r", "s">>, <<"p", "r", "o", "f", "i", "l", "e">>, <<"s">>,
      <<"[", "i", "d", "]">>, <<"(", "a", "u", "t", "h", ")">>, <<"x", ")">>, <<"(", "y">> }

\* the longest relative path, in segments
MaxSegments == 3

\* the relative paths of directories with such names
RelativePaths ==
    {Join(segs, <<"/">>) : segs \in UNION {[1..k -> SegmentNames] : k \in 1..MaxSegments}}

\* the cleanItem the walk passes for a relative path: its last segment
\* without its first bracketed part
CleanItemOf(relativePath) ==
    ReplaceBracket(Split(relativePath)[Len(Split(relativePath))], <<>>)

\* a call of generateKeyAndLabel that is to be made: with the cleanItem of
\* the walk, or with another one
KeyInit ==
    /\ paths = EmptyPaths
    /\ heap = <<>>
    /\ err = "none"
    /\ log = <<>>
    /\ ret = NoRet
    /\ \E relativePath \in RelativePaths :
          \E cleanItem \in {CleanItemOf(relativePath), <<"u", "s", "e", "r", "s">>} :
             call = [op |-> "", relativePath |-> relativePath, cleanItem |-> cleanItem]

GenerateKeyAndLabel ==
    /\ call.op = ""
    /\ call' = [call EXCEPT !.op = "generateKeyAndLabel"]
    /\ ret' = generateKeyAndLabel(call.relativePath, call.cleanItem)
    /\ UNCHANGED <<paths, heap, err, log>>

KeyNext == GenerateKeyAndLabel

KeySpec == KeyInit /\ [][KeyNext]_vars

----------------------------------------------------------------------------
(* Claims C11 to C20 *)

\* C11 as the specification has it: after removeNav on a present key the
\* entry's navs does not hold the tag
C11_RemovedTagIsGone ==
    [][(call'.op = "removeNav" /\ HasKey(paths, call'.key))
          => ~Includes(NavsOf(paths', heap', call'.key), call'.navs[1])]_vars

\* C11, amended: removeNav on a present key throws nothing and logs nothing;
\* it takes the first occurrence of the tag out of the entry's navs and leaves
\* the other elements in their order, so the navs does not hold the tag
\* afterwards when it held it at most once (an entry that came with the tag
\* twice still holds it); when the tag was not in navs nothing changes
C11_RemoveNavTakesFirstOut ==
    [][(call'.op = "removeNav" /\ HasKey(paths, call'.key))
          => LET t == call'.navs[1]
                 old == NavsOf(paths, heap, call'.key)
                 new == NavsOf(paths', heap', call'.key)
             IN /\ err' = "none"
                /\ log' = <<>>
                /\ paths' = paths
                /\ Includes(old, t)
                   => \E i \in 1..Len(old) :
                         /\ old[i] = t
                         /\ \A j \in 1..(i - 1) : old[j] # t
                         /\ new = SubSeq(old, 1, i - 1) \o SubSeq(old, i + 1, Len(old))
                /\ Count(old, t) <= 1 => ~Includes(new, t)
                /\ ~Includes(old, t) => heap' = heap]_vars

C11_Witness ==
    /\ call.op = "removeNav"
    /\ HasKey(paths, call.key)
    /\ log = <<>>
    /\ Len(NavsOf(paths, heap, call.key)) = 2
    /\ NavsOf(paths, heap, call.key)[1] = call.navs[1]
    /\ NavsOf(paths, heap, call.key)[2] # call.navs[1]

\* the positions of the entries of the registry p whose navs hold keyword
TaggedAt(p, h, keyword) ==
    Ascending({i \in 1..Len(p) : Count(h[p[i].ref].navs.items, keyword) > 0})

\* C12 as the specification has it, for a key that has just been inserted:
\* its entry, being the last one inserted, gives the last pair of getNavList
\* for a tag it holds
C12_NewestKeyIsLast ==
    [][(/\ call'.op = "addPath"
        /\ err' = "none"
        /\ Count(call'.info.navs.items, "main") > 0)
          => LET links == getNavList(paths', heap', "main")
             IN links[Len(links)] = NavLink(call'.info)]_vars

\* C12, amended: getNavList returns one {label, path} pair for each entry
\* whose navs holds the tag and none for any other, in the order in which the
\* registry is gone through.  That order has the keys that are array indices
\* first, by ascending value, and then the other keys in the order of their
\* insertion: a key stored anew goes last when it is no array index, a key
\* that stays keeps its place among those that stay, and a key that is there
\* already keeps its place when it is stored again
C12_GetNavListInRegistryOrder ==
    [][/\ call'.op = "getNavList"
          => /\ ret'.links = [n \in 1..Len(TaggedAt(paths, heap, call'.navs[1])) |->
                                 NavLink(heap[paths[TaggedAt(paths, heap, call'.navs[1])[n]].ref])]
             /\ paths' = paths /\ heap' = heap /\ err' = "none"
       /\ \A i, j \in 1..Len(paths') :
             i < j => \/ ~IsArrayIndex(paths'[j].key)
                      \/ /\ IsArrayIndex(paths'[i].key)
                         /\ DecimalValue(paths'[i].key) < DecimalValue(paths'[j].key)
       /\ call'.op # "buildPathList"
          => /\ \A i, j \in 1..Len(paths) :
                   i < j => \E m, n \in 1..Len(paths') :
                               /\ m < n
                               /\ paths'[m].key = paths[i].key
                               /\ paths'[n].key = paths[j].key
             /\ \A n \in 1..Len(paths') :
                   (~HasKey(paths, paths'[n].key) /\ ~IsArrayIndex(paths'[n].key))
                   => n = Len(paths')]_vars

C12_Witness ==
    /\ call.op = "getNavList"
    /\ Len(paths) = 4
    /\ paths[1].key = <<"2">>
    /\ paths[2].key = <<"1", "0">>
    /\ paths[3].key = Home
    /\ Len(ret.links) = 3
    /\ ret.links[1] = NavLink(heap[paths[1].ref])
    /\ ret.links[2] = NavLink(heap[paths[3].ref])
    /\ ret.links[3] = NavLink(heap[paths[4].ref])

\* the keys of keys that the registry p holds, in their order
PresentKeys(p, keys) ==
    LET at == Ascending({i \in 1..Len(keys) : HasKey(p, keys[i])})
    IN [n \in 1..Len(at) |-> keys[at[n]]]

NoRouteRoot(project) ==
    /\ project.app.io = "statFails" \/ ~project.app.isDir
    /\ project.srcApp.io = "statFails" \/ ~project.srcApp.isDir

\* the app directory of a project directory that has one
RouteRoot(project) ==
    IF project.app.io # "statFails" /\ project.app.isDir THEN project.app ELSE project.srcApp

\* the call the state comes from is the constructor or buildPathList, in a
\* project directory with an app directory, and it has not thrown
Rebuilt ==
    /\ call.op \in {"constructor", "buildPathList"}
    /\ err = "none"
    /\ ~NoRouteRoot(ProjectOf(call.project))

\* C14: buildPathList that finds no app directory logs that it is not found,
\* throws nothing and leaves the registry as it was, and the registry that the
\* constructor leaves when there is no app directory is empty
C14_NoRootChangesNothing ==
    /\ []((call.op = "constructor" /\ NoRouteRoot(ProjectOf(call.project)))
             => /\ paths = EmptyPaths
                /\ heap = <<>>
                /\ err = "none"
                /\ Count(log, ConsoleError("App directory not found in the project root:")) = 1)
    /\ [][(call'.op = "buildPathList" /\ NoRouteRoot(ProjectOf(call'.project)))
             => /\ err' = "none"
                /\ paths' = paths
                /\ heap' = heap
                /\ Count(log', ConsoleError("App directory not found in the project root:")) = 1]_vars

C14_Witness ==
    /\ call.op = "buildPathList"
    /\ call.project = "fileApp"
    /\ err = "none"
    /\ Len(paths) = 5
    /\ HasKey(paths, <<"a">>)
    /\ Count(log, ConsoleError("App directory not found in the project root:")) = 1

\* a name wrapped in parentheses
IsGroupMarker(name) == name # <<>> /\ name[1] = "(" /\ name[Len(name)] = ")"

\* the directories below a directory whose listing is kids and whose path is
\* prefix that are no group markers, each with its relative path and its name
RECURSIVE RouteDirs(_, _)
RouteDirs(kids, prefix) ==
    UNION { LET rel == IF prefix = <<>> THEN kids[i].name
                       ELSE prefix \o <<"/">> \o kids[i].name
            IN IF ~kids[i].isDir THEN {}
               ELSE (IF IsGroupMarker(kids[i].name) THEN {}
                     ELSE {[rel |-> rel, name |-> kids[i].name]})
                    \cup RouteDirs(kids[i].kids, rel)
            : i \in 1..Len(kids) }

\* the key of the entry of a directory
KeyOfDir(d) == generateKeyAndLabel(d.rel, ReplaceBracket(d.name, <<>>)).key

\* C15: after buildPathList that has not thrown, in a project directory with
\* an app directory, the keys of the registry are home and the keys of the
\* directories of the tree; nothing a caller stored is left, every entry but
\* home being one the walk made for a directory of the tree
C15_RebuildReplacesRegistry ==
    Rebuilt
    => /\ KeysOf(paths)
            = {Home} \cup {KeyOfDir(d) : d \in RouteDirs(RouteRoot(ProjectOf(call.project)).kids, <<>>)}
       /\ \A i \in 1..Len(paths) :
             paths[i].key # Home
             => \E d \in RouteDirs(RouteRoot(ProjectOf(call.project)).kids, <<>>) :
                   /\ KeyOfDir(d) = paths[i].key
                   /\ heap[paths[i].ref].path = BuiltFn(d.rel)
                   /\ heap[paths[i].ref].navs = Arr(<<>>)

C15_Witness ==
    /\ call.op = "buildPathList"
    /\ err = "none"
    /\ call.project = "users"
    /\ KeysOf(paths) = {Home, <<"u", "s", "e", "r", "s">>, <<"v", "i", "e", "w", "U", "s", "e", "r">>,
                        <<"a", "b", "o", "u", "t">>}

\* C16: after buildPathList that has not thrown, in a project directory with
\* an app directory, the registry has one entry under home: label Home, type
\* static, no tags, no group, and a path that returns "/" whatever its
\* arguments
C16_HomeAfterRebuild ==
    Rebuilt
    => /\ Cardinality({i \in 1..Len(paths) : paths[i].key = <<"h", "o", "m", "e">>}) = 1
       /\ \E i \in 1..Len(paths) :
             /\ paths[i].key = <<"h", "o", "m", "e">>
             /\ heap[paths[i].ref].label = Str(<<"H", "o", "m", "e">>)
             /\ heap[paths[i].ref].type = "static"
             /\ heap[paths[i].ref].navs = Arr(<<>>)
             /\ heap[paths[i].ref].group = Undefined
             /\ \A args \in ArgLists({Str(<<"x">>), Num(42)}, MaxArgs) :
                   CallPathFn(heap[paths[i].ref].path, args) = <<"/">>

C16_Witness ==
    /\ call.op = "buildPathList"
    /\ err = "none"
    /\ call.project = "auth"
    /\ Len(paths) = 2
    /\ paths[1].key = Home
    /\ heap[paths[1].ref].navs = Arr(<<>>)

\* C17 as the specification has it: in the project directory that has only
\* app/(auth) and app/(auth)/login the walk makes one entry; its group is
\* auth, its path returns /login, and (auth) has no entry
C17_AuthLoginRoute ==
    (Rebuilt /\ call.project = "auth")
    => /\ Len(paths) = 2
       /\ \A i \in 1..Len(paths) : ~IsGroupMarker(paths[i].key)
       /\ HasKey(paths, <<"l", "o", "g", "i", "n">>)
       /\ getPath(paths, heap, <<"l", "o", "g", "i", "n">>).group = Str(<<"a", "u", "t", "h">>)
       /\ CallPathFn(getPath(paths, heap, <<"l", "o", "g", "i", "n">>).path, <<>>)
            = <<"/", "l", "o", "g", "i", "n">>

\* every directory of a tree can be read
RECURSIVE AllReadable(_)
AllReadable(node) ==
    /\ node.io = "ok"
    /\ \A i \in 1..Len(node.kids) : AllReadable(node.kids[i])

\* C18 as the specification has it: for every tree under an app directory
\* buildPathList completes, and the registry then has, besides home, one
\* entry for each directory of the tree that is no group marker
C18_OneEntryPerDirectory ==
    (/\ call.op = "buildPathList"
     /\ ~NoRouteRoot(ProjectOf(call.project))
     /\ AllReadable(RouteRoot(ProjectOf(call.project))))
    => /\ err = "none"
       /\ Len(paths) = 1 + Cardinality(RouteDirs(RouteRoot(ProjectOf(call.project)).kids, <<>>))

\* a name with a bracketed part: a "[" with a "]" somewhere after it
HasBracketedPart(name) ==
    \E i, j \in 1..Len(name) : i < j /\ name[i] = "[" /\ name[j] = "]"

\* the segments of a relative path that are not empty and no group markers
RemainingSegments(relativePath) ==
    SelectSeq(Split(relativePath), LAMBDA seg : seg # <<>> /\ ~IsGroupMarker(seg))

\* a word without one "s" at its end
WithoutFinalS(word) ==
    IF word # <<>> /\ word[Len(word)] = "s" THEN SubSeq(word, 1, Len(word) - 1) ELSE word

\* the remaining segments without a bracketed part, each with its first
\* letter in upper case and then without its final s (in that order a segment
\* that is the letter s alone stays, as S)
ViewWords(relativePath) ==
    LET plain == SelectSeq(RemainingSegments(relativePath),
                           LAMBDA seg : ~HasBracketedPart(seg))
    IN [n \in 1..Len(plain) |-> WithoutFinalS(UpperFirst(plain[n]))]

\* the last of the remaining segments has a bracketed part
LastRemainingIsDynamic(relativePath) ==
    /\ RemainingSegments(relativePath) # <<>>
    /\ HasBracketedPart(RemainingSegments(relativePath)[Len(RemainingSegments(relativePath))])

\* C19 as the specification has it: when the last segment that remains
\* after the empty ones and the group markers are dropped is dynamic, the key
\* is view and then the remaining segments that are not dynamic, singularised
\* and capitalised, and the label is View and then the same words with
\* spaces between them
C19_DynamicKeyAndLabel ==
    (call.op = "generateKeyAndLabel" /\ LastRemainingIsDynamic(call.relativePath))
    => /\ ret.key = <<"v", "i", "e", "w">> \o Join(ViewWords(call.relativePath), <<>>)
       /\ ret.label = <<"V", "i", "e", "w", " ">> \o Join(ViewWords(call.relativePath), <<" ">>)

\* C20 as the specification has it: when the last remaining segment is not
\* dynamic, the key is cleanItem with its first letter in lower case and the
\* label is cleanItem with its first letter in upper case
C20_StaticKeyAndLabel ==
    (/\ call.op = "generateKeyAndLabel"
     /\ RemainingSegments(call.relativePath) # <<>>
     /\ ~LastRemainingIsDynamic(call.relativePath))
    => /\ ret.key = LowerFirst(call.cleanItem)
       /\ ret.label = UpperFirst(call.cleanItem)

----------------------------------------------------------------------------
(* The path function addPathToManager makes, on its own: the state is the
   call and what it returns *)

\* names of directories: two plain ones and two dynamic ones
PathSegmentNames ==
    { <<"e", "x", "a", "m", "p", "l", "e">>, <<"s", "u", "b">>,
      <<"[", "i", "d", "]">>, <<"[", "s", "u", "b", "I", "d", "]">> }

\* example/[id]/sub/[subId]
ExamplePath ==
    <<"e", "x", "a", "m", "p", "l", "e", "/", "[", "i", "d", "]", "/",
      "s", "u", "b", "/", "[", "s", "u", "b", "I", "d", "]">>

\* the relative paths the path function is made for
PathFnPaths ==
    {ExamplePath}
        \cup {Join(segs, <<"/">>) :
                 segs \in UNION {[1..k -> PathSegmentNames] : k \in 1..MaxSegments}}

\* the arguments callers pass: strings, a number, a string with a
\* replacement pattern in it and a string with brackets in it
PathFnArgs ==
    { Str(<<"1", "2", "3">>), Str(<<"4", "5", "6">>), Num(7),
      Str(<<"$", "&">>), Str(<<"[", "x", "]">>) }

\* the longest argument list of a path function
MaxPathArgs == 3

\* a path function and the arguments it is to be called with
PathFnInit ==
    /\ paths = EmptyPaths
    /\ heap = <<>>
    /\ err = "none"
    /\ log = <<>>
    /\ ret = NoRet
    /\ \E relativePath \in PathFnPaths, args \in ArgLists(PathFnArgs, MaxPathArgs) :
          call = [op |-> "", relativePath |-> relativePath, args |-> args]

\* path(...args) of the entry addPathToManager made for call.relativePath
CallPath ==
    /\ call.op = ""
    /\ call' = [call EXCEPT !.op = "path"]
    /\ ret' = CallPathFn(BuiltPathInfo(call.relativePath, <<>>, Undefined).path, call.args)
    /\ UNCHANGED <<paths, heap, err, log>>

PathFnNext == CallPath

PathFnSpec == PathFnInit /\ [][PathFnNext]_vars

----------------------------------------------------------------------------
(* Claims C21 to C30 *)

\* the number of the segments up to the i-th that have a bracketed part
BracketedUpTo(segs, i) == Cardinality({j \in 1..i : HasBracketedPart(segs[j])})

\* "/" and the relative path, each segment with a bracketed part that has
\* an argument (the n-th such segment has the n-th argument) being the string
\* form of its argument
Substituted(relativePath, args) ==
    LET segs == Split(relativePath)
    IN <<"/">> \o Join([i \in 1..Len(segs) |->
                          IF HasBracketedPart(segs[i]) /\ BracketedUpTo(segs, i) <= Len(args)
                          THEN TemplateString(args[BracketedUpTo(segs, i)])
                          ELSE segs[i]],
                       <<"/">>)

\* the number of the segments of a relative path that have a bracketed part
BracketedSegments(relativePath) ==
    BracketedUpTo(Split(relativePath), Len(Split(relativePath)))

\* C21 as the specification has it: the path function of a relative path
\* with N bracketed segments, called with N arguments, returns "/" and the
\* relative path with the i-th bracketed segment replaced by the string form
\* of the i-th argument, whatever the argument
C21_PathFnSubstitutesInOrder ==
    (call.op = "path" /\ Len(call.args) = BracketedSegments(call.relativePath))
    => ret = Substituted(call.relativePath, call.args)

\* C22 as the specification has it: the path function called with more
\* arguments than there are bracketed segments returns what it returns for
\* the first N of them, and called with fewer it replaces the first
\* bracketed segments and leaves the others as they are
C22_ExcessIgnoredMissingLeft ==
    call.op = "path"
    => /\ Len(call.args) > BracketedSegments(call.relativePath)
          => ret = CallPathFn(BuiltFn(call.relativePath),
                              SubSeq(call.args, 1, BracketedSegments(call.relativePath)))
       /\ Len(call.args) < BracketedSegments(call.relativePath)
          => ret = Substituted(call.relativePath, call.args)

\* a candidate of locateAppDir that exists, is a directory and whose stat
\* does not fail
IsDirectory(candidate) == candidate.io # "statFails" /\ candidate.isDir

\* C23: getAppDir, which returns what locateAppDir returns, throws nothing
\* and returns <root>/app (1) when that is a directory, else <root>/src/app
\* (2) when that is a directory, else false (0): a candidate that is missing,
\* is a file or whose stat fails is passed over.  It changes nothing.
C23_LocateAppDirInOrder ==
    [][call'.op = "getAppDir"
          => /\ err' = "none"
             /\ paths' = paths
             /\ heap' = heap
             /\ ret'.appDir
                  = (IF IsDirectory(ProjectOf(call'.project).app) THEN 1
                     ELSE IF IsDirectory(ProjectOf(call'.project).srcApp) THEN 2
                     ELSE 0)]_vars

C23_Witness ==
    /\ call.op = "getAppDir"
    /\ call.project = "denied"
    /\ ProjectOf(call.project).app.io = "statFails"
    /\ ret.appDir = 2

\* the fields of a PathInfo object that are not its navs
FixedFields(pathInfo) ==
    [label |-> pathInfo.label, path |-> pathInfo.path,
     type |-> pathInfo.type, group |-> pathInfo.group]

\* C24: addNav, addPathsToNav and removeNav leave the keys of the registry
\* and the label, path, type and group of every entry as they were; the type
\* and the group under a key stay the same in every call but updatePath of
\* that key and buildPathList
C24_TagCallsKeepTheRest ==
    [][/\ call'.op \in {"addNav", "addPathsToNav", "removeNav"}
          => /\ paths' = paths
             /\ \A i \in 1..Len(paths) :
                   FixedFields(heap'[paths'[i].ref]) = FixedFields(heap[paths[i].ref])
       /\ call'.op # "buildPathList"
          => \A i \in 1..Len(paths) :
                \/ call'.op = "updatePath" /\ call'.key = paths[i].key
                \/ /\ HasKey(paths', paths[i].key)
                   /\ getPath(paths', heap', paths[i].key).type = heap[paths[i].ref].type
                   /\ getPath(paths', heap', paths[i].key).group = heap[paths[i].ref].group]_vars

C24_Witness ==
    /\ call.op = "addNav"
    /\ HasKey(paths, call.key)
    /\ NavsOf(paths, heap, call.key) = <<"main", "main", "side">>
    /\ getPath(paths, heap, call.key).group = Str(<<"g">>)
    /\ getPath(paths, heap, call.key).type = "dynamic"

\* the key, label, type and group of every entry of the registry (p, h), in
\* the order of the registry
Entries(p, h) ==
    [i \in 1..Len(p) |-> [key |-> p[i].key, label |-> h[p[i].ref].label,
                          type |-> h[p[i].ref].type, group |-> h[p[i].ref].group]]

\* C25: buildPathList that has not thrown, right after a construction or a
\* buildPathList in the same project directory that has not thrown, leaves
\* the same keys with the same label, type and group; and whatever was called
\* in between, the registry after buildPathList that has not thrown is the one
\* a new instance has in the same project directory
C25_RebuildGivesSameKeys ==
    /\ [][(/\ Rebuilt
           /\ call'.op = "buildPathList"
           /\ call'.project = call.project
           /\ err' = "none")
             => Entries(paths', heap') = Entries(paths, heap)]_vars
    /\ [](Rebuilt
            => Entries(paths, heap)
                 = Entries(buildPathList(EmptyPaths, <<>>, ProjectOf(call.project)).paths,
                           buildPathList(EmptyPaths, <<>>, ProjectOf(call.project)).heap))

C25_Witness ==
    /\ call.op = "buildPathList"
    /\ err = "none"
    /\ call.project = "users"
    /\ Entries(paths, heap)
         = <<[key |-> Home, label |-> Str(<<"H", "o", "m", "e">>),
              type |-> "static", group |-> Undefined],
             [key |-> <<"u", "s", "e", "r", "s">>, label |-> Str(<<"U", "s", "e", "r", "s">>),
              type |-> "static", group |-> Str(<<>>)],
             [key |-> <<"v", "i", "e", "w", "U", "s", "e", "r">>,
              label |-> Str(<<"V", "i", "e", "w", " ", "U", "s", "e", "r">>),
              type |-> "dynamic", group |-> Str(<<>>)],
             [key |-> <<"a", "b", "o", "u", "t">>, label |-> Str(<<"A", "b", "o", "u", "t">>),
              type |-> "static", group |-> Str(<<>>)]>>

\* the registry p holds home and, of the directories of the tree of a project
\* directory, some but not all
PartialTree(p, project) ==
    LET treeKeys == {KeyOfDir(d) : d \in RouteDirs(RouteRoot(project).kids, <<>>)}
    IN /\ Home \in KeysOf(p)
       /\ KeysOf(p) \ {Home} \subseteq treeKeys
       /\ treeKeys \ KeysOf(p) # {}

\* C26 as the specification has it: buildPathList in a project directory
\* with an app directory in which a directory cannot be listed throws the
\* error of the listing, and the registry is then as it was before the call
\* or at least holds no partial tree
C26_FailedRebuildIsAtomic ==
    [][(/\ call'.op = "buildPathList"
        /\ ~NoRouteRoot(ProjectOf(call'.project))
        /\ ~AllReadable(RouteRoot(ProjectOf(call'.project))))
          => /\ err' = "IOError"
             /\ \/ paths' = paths /\ heap' = heap
                \/ ~PartialTree(paths', ProjectOf(call'.project))]_vars

\* the positions of the segments above the last one that are group markers
GroupsAbove(segs) == {j \in 1..(Len(segs) - 1) : IsGroupMarker(segs[j])}

\* the name inside the parentheses of the nearest group marker above the
\* directory of a relative path, the empty string when there is none
EnclosingGroup(relativePath) ==
    LET segs == Split(relativePath)
        nearest == CHOOSE j \in GroupsAbove(segs) : \A k \in GroupsAbove(segs) : k <= j
    IN IF GroupsAbove(segs) = {} THEN <<>>
       ELSE SubSeq(segs[nearest], 2, Len(segs[nearest]) - 1)

\* C27: every entry the walk made has as its group the name inside the
\* parentheses of the nearest group marker above its directory, and the empty
\* string when no directory above it is a group marker; no entry is made for
\* a group marker
C27_GroupIsNearestMarker ==
    \A i \in 1..Len(paths) :
       heap[paths[i].ref].path.f = "built"
       => /\ heap[paths[i].ref].group = Str(EnclosingGroup(heap[paths[i].ref].path.s))
          /\ ~IsGroupMarker(Split(heap[paths[i].ref].path.s)
                               [Len(Split(heap[paths[i].ref].path.s))])

C27_Witness ==
    /\ call.op = "buildPathList"
    /\ call.project = "groups"
    /\ err = "none"
    /\ Len(paths) = 7
    /\ getPath(paths, heap, <<"x">>).group = Str(<<"a">>)
    /\ getPath(paths, heap, <<"y">>).group = Str(<<"b">>)
    /\ getPath(paths, heap, <<"u">>).group = Str(<<"a">>)
    /\ getPath(paths, heap, <<"z">>).group = Str(<<"a">>)
    /\ getPath(paths, heap, <<"w">>).group = Str(<<>>)
    /\ getPath(paths, heap, <<"v">>).group = Str(<<>>)

\* C28 as the specification has it: every entry the walk made has the type
\* dynamic when a segment of its relative path has a bracketed part, and the
\* type static when none has
C28_DynamicIffBracketedSegment ==
    \A i \in 1..Len(paths) :
       heap[paths[i].ref].path.f = "built"
       => (heap[paths[i].ref].type = "dynamic"
             <=> \E n \in 1..Len(Split(heap[paths[i].ref].path.s)) :
                    HasBracketedPart(Split(heap[paths[i].ref].path.s)[n]))

\* C29: after the constructor or buildPathList that has found an app
\* directory and has not thrown, the navs of every entry is empty, whatever
\* tags its key had before, and getNavList called next returns no pair for
\* any tag
C29_RebuildClearsTags ==
    /\ [](Rebuilt
            => /\ \A i \in 1..Len(paths) : heap[paths[i].ref].navs = Arr(<<>>)
               /\ \A keyword \in Tags : getNavList(paths, heap, keyword) = <<>>)
    /\ [][(Rebuilt /\ call'.op = "getNavList") => ret'.links = <<>>]_vars

C29_Witness ==
    /\ call.op = "buildPathList"
    /\ call.project = "auth"
    /\ err = "none"
    /\ HasKey(paths, <<"l", "o", "g", "i", "n">>)
    /\ NavsOf(paths, heap, <<"l", "o", "g", "i", "n">>) = <<>>
    /\ NavsOf(paths, heap, Home) = <<>>

\* the keys a call of addNav, addPathsToNav or removeNav names
NamedKeys(c) ==
    IF c.op = "addPathsToNav" THEN {c.keys[i] : i \in 1..Len(c.keys)} ELSE {c.key}

====
